---- MODULE Spec2Model ----
(***************************************************************************)
(* Settings persistence and menu state machine of the NCIR temperature     *)
(* monitor firmware, in its two menu-capable builds:                       *)
(*   "full"   : src/unnamed/part_000 (7-bit volume, brightness and sound   *)
(*              dialogs driven by the buttons)                             *)
(*   "simple" : src/unnamed/part_001 (volume index in the sound byte,      *)
(*              brightness cycled from the menu)                           *)
(* The GUI library's event callbacks (slider, switch, button matrix, OK    *)
(* buttons, message-box buttons) are modelled as operations the            *)
(* environment may invoke while the widget they are registered on exists   *)
(* and is not covered by a modal message box.                              *)
(***************************************************************************)
EXTENDS Integers, Sequences, FiniteSets, TLC

(***************************************************************************)
(* IEEE-754 binary32 arithmetic on non-negative values.  A float is a      *)
(* record [m, e] of value m * 2^e with 2^23 <= m < 2^24, or m = 0.  All    *)
(* operations round to nearest, ties to even, as the target's FPU does;    *)
(* every intermediate stays below 2^31.                                    *)
(***************************************************************************)
RECURSIVE Pow2(_)
Pow2(n) == IF n <= 0 THEN 1 ELSE 2 * Pow2(n - 1)

\* the mantissa of a normalised float lies in TwoTo23 .. TwoTo24 - 1
TwoTo23 == 2^23
TwoTo24 == 2^24

F32Zero == [m |-> 0, e |-> 0]

\* mantissa q (< 2^24 + 1) after rounding may have reached 2^24
F32Carry(q, e) == IF q = TwoTo24 THEN [m |-> TwoTo23, e |-> e + 1]
                                  ELSE [m |-> q, e |-> e]

\* round the mantissa q up when the discarded part exceeds half a unit
\* (twice > whole), or equals it and q is odd
F32Round(q, e, twice, whole) ==
    IF twice > whole \/ (twice = whole /\ q % 2 = 1)
    THEN F32Carry(q + 1, e) ELSE [m |-> q, e |-> e]

RECURSIVE F32Norm(_, _)
F32Norm(m, e) == IF m >= TwoTo23 THEN [m |-> m, e |-> e]
                                  ELSE F32Norm(2 * m, e - 1)

\* (float)n for an integer 0 <= n < 2^24 (exact)
F32FromInt(n) == IF n = 0 THEN F32Zero ELSE F32Norm(n, 0)

\* long division: quotient bits are produced until the mantissa is full
RECURSIVE F32DivBits(_, _, _, _)
F32DivBits(q, r, d, e) ==
    IF q >= TwoTo23 THEN F32Round(q, e, 2 * r, d)
    ELSE IF 2 * r >= d THEN F32DivBits(2 * q + 1, 2 * r - d, d, e - 1)
                       ELSE F32DivBits(2 * q, 2 * r, d, e - 1)

\* x / y, y # 0
F32Div(x, y) ==
    IF x.m = 0 THEN F32Zero
    ELSE F32DivBits(x.m \div y.m, x.m % y.m, y.m, x.e - y.e)

\* x * y: the 48-bit product of the mantissas is formed from 12-bit halves
\* as hi * 2^24 + lo and rounded to 24 bits
F32Mul(x, y) ==
    IF x.m = 0 \/ y.m = 0 THEN F32Zero
    ELSE LET a1 == x.m \div 4096   b1 == x.m % 4096
             a2 == y.m \div 4096   b2 == y.m % 4096
             mid == a1 * b2 + b1 * a2
             lo0 == b1 * b2 + (mid % 4096) * 4096
             lo  == lo0 % TwoTo24
             hi  == a1 * a2 + (mid \div 4096) + (lo0 \div TwoTo24)
         IN  IF hi >= TwoTo23
             THEN F32Round(hi, x.e + y.e + 24, 2 * lo, TwoTo24)
             ELSE F32Round(2 * hi + (lo \div TwoTo23), x.e + y.e + 23,
                           2 * (lo % TwoTo23), TwoTo23)

\* x + y with x.e >= y.e, both non-zero
F32AddOrdered(x, y) ==
    LET d == x.e - y.e IN
    IF d >= 26 THEN x
    ELSE LET s == x.m + (y.m \div Pow2(d))
             r == y.m % Pow2(d)
         IN  IF s < TwoTo24 THEN F32Round(s, x.e, 2 * r, Pow2(d))
             ELSE F32Round(s \div 2, x.e + 1,
                           2 * ((s % 2) * Pow2(d) + r), 2 * Pow2(d))

F32Add(x, y) ==
    IF x.m = 0 THEN y
    ELSE IF y.m = 0 THEN x
    ELSE IF x.e >= y.e THEN F32AddOrdered(x, y) ELSE F32AddOrdered(y, x)

F32Lt(x, y) ==
    IF y.m = 0 THEN FALSE
    ELSE IF x.m = 0 THEN TRUE
    ELSE x.e < y.e \/ (x.e = y.e /\ x.m < y.m)

F32Le(x, y) == ~F32Lt(y, x)

\* conversion to an unsigned integer truncates toward zero; the values
\* converted here are at most 100.0
F32Trunc(x) ==
    IF x.m = 0 THEN 0
    ELSE IF x.e >= 0 THEN x.m * Pow2(x.e)
    ELSE IF -x.e > 24 THEN 0
    ELSE x.m \div Pow2(-x.e)

\* the float literal n/100 written with the f suffix (0.65f, 0.95f, ...)
F32Hundredths(n) == F32Div(F32FromInt(n), F32FromInt(100))

(***************************************************************************)
(* Program constants                                                       *)
(***************************************************************************)
SETTINGS_VALID_ADDR == 0
TEMP_UNIT_ADDR == 1
GAUGE_VISIBLE_ADDR == 2
BRIGHTNESS_ADDR == 3
EMISSIVITY_ADDR == 4
SOUND_SETTINGS_ADDR == 6
SETTINGS_VALID_VALUE == 85
BRIGHTNESS_LEVELS_FULL == 4
BRIGHTNESS_LEVELS_SIMPLE == 5
VOLUME_STEP == 5
VOLUME_SLIDER_MIN == 25
VOLUME_SLIDER_MAX == 100
MENU_ITEMS == 6
RESTART_SECONDS == 5
EMISSIVITY_BAR_WIDTH == 180
TEMP_TOO_COLD_F == 400
TEMP_LOW_F == 450
TEMP_HIGH_F == 600
TEMP_TOO_HOT_F == 650
TEMP_TOO_COLD_C == 204
TEMP_LOW_C == 232
TEMP_HIGH_C == 316
TEMP_TOO_HOT_C == 343

Variants == {"full", "simple"}

BRIGHTNESS_LEVELS(v) ==
    IF v = "full" THEN BRIGHTNESS_LEVELS_FULL ELSE BRIGHTNESS_LEVELS_SIMPLE

EMISSIVITY_MIN == F32Hundredths(65)      \* 0.65f
EMISSIVITY_MAX == F32FromInt(1)          \* 1.0f
EMISSIVITY_SPAN == F32Hundredths(35)     \* 0.35f
EMISSIVITY_DEFAULT == F32Hundredths(95)  \* 0.95f

(***************************************************************************)
(* Bounds of the model                                                     *)
(***************************************************************************)
\* The firmware itself limits neither the restart message boxes nor the
\* sound dialogs that are open at once: every KEY press on "Exit" or on the
\* sound item of the simple build makes another one.  The bounds below limit
\* what the user does in the runs that are examined, not the firmware.
\* restart message boxes the user lets pile up in the runs of SpecQuiet and
\* SpecCountdown
MaxMsgboxes == 3
\* restart message boxes the user lets pile up in the runs of SpecFocus and
\* SpecEmissivity
FocusMsgboxes == 2
\* sound dialogs the user lets pile up in the runs of SpecQuiet and SpecInput
MaxSoundDialogs == 1

Bytes == 0..255
Addrs == 0..6

VARIABLES
    variant,                \* which build runs
    pc,                     \* "off" or "restart" before setup(), "run" in
                            \* loop()
    eeprom,                 \* the seven persisted bytes
    temp_in_celsius, current_brightness, showGauge,
    sound_enabled, volume_level, current_emissivity,
    selected_menu_item, menu_active, bar_active,
    brightness_menu_active, selected_brightness, sound_menu_active,
    emissivity_changed, pending_emissivity, restart_countdown,
    emissivity_bar,         \* emissivity_bar # NULL
    brightness_dialog,      \* brightness_dialog # NULL (full build)
    sound_dialogs,          \* open sound dialogs, bottom to top: the checked
                            \* state of each dialog's switch
    msgboxes,               \* open restart message boxes, bottom to top:
                            \* TRUE while the box still shows its buttons
    restart_msgbox,         \* restart_msgbox # NULL (it is then the top box)
    backdrop,               \* a backdrop of lv_msgbox_create(NULL, ...) covers
                            \* the screen: lv_obj_del(restart_msgbox) deletes
                            \* the box and leaves its backdrop on the top layer
    restart_timers,         \* countdown timers created by lv_timer_create
    migrations,             \* legacy sound bytes rewritten by loadSettings
    ticks,                  \* restart_timer_cb runs since setup(): the first
                            \* follows the first Confirm of the boot
    entered_emissivity,     \* current_emissivity when the emissivity bar was
                            \* last opened (0.0 before that)
    round_trip,             \* codec runs: the record the saveSettings call
                            \* under test wrote, then the record the next
                            \* setup() loaded
    committed,              \* the addresses written before the most recent
                            \* EEPROM.commit()
    tone,                   \* M5.Speaker.tone was called during the most
                            \* recent run of a handler
    changed_since_entry,    \* setEmissivity has changed the value since the
                            \* menu was last opened and the change has not
                            \* been cancelled
    pin_level,              \* the level of the three input lines
    lastButton2State, lastButton1State, lastKeyState,
    held_events,            \* per line: press events since it last went low
    wraps,                  \* the presses of Button1 and Button2 that
                            \* loop() has detected since setup() with the
                            \* index they move at the end of its range on
                            \* their side
    objectTemp,             \* what readObjectTemperature returned to the
                            \* last update, converted to the unit shown, in
                            \* thousandths of a degree
    temp_value_text,        \* the text of temp_value_label
    status_text,            \* the text of status_label
    led,                    \* leds[0]
    meter_value,            \* the value of the needle temp_indic
    emissivity_register     \* the data of the last write to register 0x24
                            \* of the sensor, <<>> before the first one

recordVars == <<temp_in_celsius, current_brightness, showGauge,
                sound_enabled, volume_level, current_emissivity>>
menuVars == <<selected_menu_item, menu_active, bar_active,
              brightness_menu_active, selected_brightness, sound_menu_active>>
changedVars == <<emissivity_changed, changed_since_entry>>
restartVars == <<changedVars, pending_emissivity, restart_countdown,
                 msgboxes, restart_msgbox, backdrop, restart_timers, ticks,
                 entered_emissivity>>
widgetVars == <<emissivity_bar, brightness_dialog, sound_dialogs>>
\* what a restart and a power cycle leave as it is
storeVars == <<eeprom, committed, emissivity_register>>
inputVars == <<pin_level, lastButton2State, lastButton1State, lastKeyState,
               held_events, wraps>>
sensorVars == <<objectTemp, temp_value_text, status_text, led, meter_value>>
\* what the menu handlers and the widget callbacks never touch
fixedVars == <<variant, round_trip, inputVars, sensorVars>>
vars == <<fixedVars, pc, storeVars, recordVars, menuVars, restartVars,
          widgetVars, migrations, tone>>

(***************************************************************************)
(* The settings record held in RAM                                         *)
(***************************************************************************)
Record == [temp_in_celsius |-> temp_in_celsius,
           current_brightness |-> current_brightness,
           showGauge |-> showGauge,
           sound_enabled |-> sound_enabled,
           volume_level |-> volume_level,
           current_emissivity |-> current_emissivity]

\* the static initialisers of the settings globals
DefaultRecord(v) ==
    [temp_in_celsius |-> TRUE,
     current_brightness |-> BRIGHTNESS_LEVELS(v) - 1,
     showGauge |-> TRUE,
     sound_enabled |-> TRUE,
     volume_level |-> 100,
     current_emissivity |-> EMISSIVITY_DEFAULT]

(***************************************************************************)
(* saveSettings                                                            *)
(***************************************************************************)
\* the sound byte: (sound_enabled ? 0x80 : 0) | volume bits
SoundByteFull(r) ==
    (IF r.sound_enabled THEN 128 ELSE 0) + (r.volume_level % 128)

SoundByteSimple(r) ==
    LET idx == r.volume_level \div 25
    IN  IF r.sound_enabled THEN 128 + (idx % 128) ELSE idx

SoundByte(v, r) == IF v = "full" THEN SoundByteFull(r) ELSE SoundByteSimple(r)

\* an emissivity_int that keeps one decimal place only
EmissivityIntTenths(e) == (F32Trunc(F32Mul(e, F32FromInt(10))) * 10) % 65536

\* uint16_t emissivity_int = current_emissivity * 100;
EmissivityInt(e) == F32Trunc(F32Mul(e, F32FromInt(100))) % 65536

\* the stored bytes after saveSettings() has written record r over ee
SaveSettings(v, r, ee) ==
    [a \in Addrs |->
        IF a = SETTINGS_VALID_ADDR THEN SETTINGS_VALID_VALUE
        ELSE IF a = TEMP_UNIT_ADDR THEN (IF r.temp_in_celsius THEN 1 ELSE 0)
        ELSE IF a = BRIGHTNESS_ADDR THEN r.current_brightness % 256
        ELSE IF a = GAUGE_VISIBLE_ADDR THEN (IF r.showGauge THEN 1 ELSE 0)
        ELSE IF a = SOUND_SETTINGS_ADDR THEN SoundByte(v, r)
        ELSE IF a = EMISSIVITY_ADDR THEN EmissivityInt(r.current_emissivity) % 256
        ELSE IF a = EMISSIVITY_ADDR + 1
             THEN EmissivityInt(r.current_emissivity) \div 256
        ELSE ee[a]]

(***************************************************************************)
(* setEmissivity                                                           *)
(***************************************************************************)
\* uint16_t emissivityData = value * 65535;
EmissivityData(value) == F32Trunc(F32Mul(value, F32FromInt(65535))) % 65536

\* a setEmissivity that writes the register whether the value differs or not
WriteRegisterAlways(value, cur, reg) == <<EmissivityData(value)>>

\* register 0x24 after setEmissivity(value): written when the value differs
WriteRegister(value, cur, reg) ==
    IF value # cur THEN <<EmissivityData(value)>> ELSE reg

\* the emissivity globals after setEmissivity(value)
SetEmissivity(value, cur, pend, chg) ==
    IF value # cur
    THEN [current |-> value, pending |-> cur, changed |-> TRUE]
    ELSE [current |-> cur, pending |-> pend, changed |-> chg]

(***************************************************************************)
(* loadSettings                                                            *)
(***************************************************************************)
\* a test that takes every volume up to the smallest valid one for the old
\* format
IsLegacySoundByteUpToMin(sb) == (sb % 128) <= 25

\* the old sound format is recognised by its low seven bits
IsLegacySoundByte(sb) == (sb % 128) <= 3

LegacyVolume(sb) == (sb % 4) * 25 + 25

ClampVolume(vol) == IF vol < 25 THEN 25 ELSE IF vol > 100 THEN 100 ELSE vol

ClampEmissivity(e) ==
    IF F32Lt(e, EMISSIVITY_MIN) THEN EMISSIVITY_MIN
    ELSE IF F32Lt(EMISSIVITY_MAX, e) THEN EMISSIVITY_MAX
    ELSE e

\* a load that takes the stored brightness index as it is
KeepBrightness(v, b) == b

ClampBrightness(v, b) ==
    IF b >= BRIGHTNESS_LEVELS(v) THEN BRIGHTNESS_LEVELS(v) - 1 ELSE b

LoadedVolume(v, sb) ==
    IF v = "full"
    THEN ClampVolume(IF IsLegacySoundByte(sb) THEN LegacyVolume(sb)
                                               ELSE sb % 128)
    ELSE LegacyVolume(sb)

LoadedEmissivity(ee) ==
    ClampEmissivity(F32Div(F32FromInt(ee[EMISSIVITY_ADDR]
                                      + 256 * ee[EMISSIVITY_ADDR + 1]),
                           F32FromInt(100)))

\* the full build rewrites a legacy sound byte in the new format and commits
Migrates(v, ee) ==
    /\ v = "full"
    /\ ee[SETTINGS_VALID_ADDR] = SETTINGS_VALID_VALUE
    /\ IsLegacySoundByte(ee[SOUND_SETTINGS_ADDR])

\* the record loadSettings() reads from a store whose sentinel is valid
LoadedRecord(v, ee) ==
    [temp_in_celsius |-> ee[TEMP_UNIT_ADDR] = 1,
     current_brightness |-> ClampBrightness(v, ee[BRIGHTNESS_ADDR]),
     showGauge |-> ee[GAUGE_VISIBLE_ADDR] = 1,
     sound_enabled |-> ee[SOUND_SETTINGS_ADDR] >= 128,
     volume_level |-> LoadedVolume(v, ee[SOUND_SETTINGS_ADDR]),
     current_emissivity |-> LoadedEmissivity(ee)]

\* loadSettings() without its test of the sentinel
LoadSettingsUnchecked(v, r, ee) == LoadedRecord(v, ee)

\* the record in RAM after loadSettings() has run over record r
LoadSettings(v, r, ee) ==
    IF ee[SETTINGS_VALID_ADDR] = SETTINGS_VALID_VALUE
    THEN LoadedRecord(v, ee)
    ELSE r

\* a loadSettings() that converts the volume and leaves the byte as it is
LoadRewriteNothing(v, ee) == ee

\* the stored bytes after loadSettings()
LoadRewrite(v, ee) ==
    IF Migrates(v, ee)
    THEN [ee EXCEPT ![SOUND_SETTINGS_ADDR] =
              (IF ee[SOUND_SETTINGS_ADDR] >= 128 THEN 128 ELSE 0)
              + (LegacyVolume(ee[SOUND_SETTINGS_ADDR]) % 128)]
    ELSE ee

(***************************************************************************)
(* Inputs                                                                  *)
(***************************************************************************)
\* stored bytes found at power-on
Store(valid, unit, gauge, brightness, lo, hi, sound) ==
    [a \in Addrs |->
        IF a = SETTINGS_VALID_ADDR THEN valid
        ELSE IF a = TEMP_UNIT_ADDR THEN unit
        ELSE IF a = GAUGE_VISIBLE_ADDR THEN gauge
        ELSE IF a = BRIGHTNESS_ADDR THEN brightness
        ELSE IF a = EMISSIVITY_ADDR THEN lo
        ELSE IF a = EMISSIVITY_ADDR + 1 THEN hi
        ELSE sound]

\* stored bytes the device may be first powered on with: erased flash, and
\* a record written by the simple build (legacy sound byte, volume index 2)
BlankStore == [a \in Addrs |-> 255]
LegacyStore == [a \in Addrs |->
    IF a = SETTINGS_VALID_ADDR THEN SETTINGS_VALID_VALUE
    ELSE IF a = TEMP_UNIT_ADDR THEN 0
    ELSE IF a = GAUGE_VISIBLE_ADDR THEN 1
    ELSE IF a = BRIGHTNESS_ADDR THEN 2
    ELSE IF a = EMISSIVITY_ADDR THEN 90
    ELSE IF a = EMISSIVITY_ADDR + 1 THEN 0
    ELSE 130]
\* records with the sound off: volume 50 as the full build writes it,
\* volume index 2 as the simple build writes it
QuietStore(v) ==
    IF v = "full" THEN Store(SETTINGS_VALID_VALUE, 1, 1, 3, 95, 0, 50)
                  ELSE Store(SETTINGS_VALID_VALUE, 1, 1, 4, 95, 0, 2)
\* stored records whose emissivity lies below the range (0.64), on its ends
\* (0.65, 1.00) and above it (1.01, 655.35), and erased flash
EmissivityBytes == {<<64, 0>>, <<65, 0>>, <<100, 0>>, <<101, 0>>, <<255, 255>>}
EmissivityStores ==
    {BlankStore}
        \cup {Store(SETTINGS_VALID_VALUE, 0, 1, 2, b[1], b[2], 130) :
                 b \in EmissivityBytes}

InitialStores == {BlankStore, LegacyStore}
                     \cup {QuietStore(v) : v \in Variants}
                     \cup EmissivityStores

\* horizontal offsets of the touch point from the left edge of the bar: a
\* finger that stays down sends LV_EVENT_PRESSING from left of the bar and
\* from right of it too
SliderPoints == {-10, 45, 200}
\* values the volume slider reports (lv_slider_get_value, range 25..100)
VolumeSliderValues == {VOLUME_SLIDER_MIN + 2, VOLUME_SLIDER_MAX}

(***************************************************************************)
(* playBeep                                                                *)
(***************************************************************************)
\* a playBeep that drives the speaker whatever sound_enabled says
PlayBeepAlways(enabled) == TRUE

\* playBeep calls M5.Speaker.tone when sound_enabled holds
PlayBeep(enabled) == enabled

\* the full build asks "if (sound_enabled)" before it calls playBeep from a
\* button or widget handler, the simple build calls it directly
MenuBeep ==
    IF variant = "full" THEN sound_enabled /\ PlayBeep(sound_enabled)
                        ELSE PlayBeep(sound_enabled)

(***************************************************************************)
(* Helpers of the actions                                                  *)
(***************************************************************************)
SetRecord(r) ==
    /\ temp_in_celsius' = r.temp_in_celsius
    /\ current_brightness' = r.current_brightness
    /\ showGauge' = r.showGauge
    /\ sound_enabled' = r.sound_enabled
    /\ volume_level' = r.volume_level
    /\ current_emissivity' = r.current_emissivity

HoldsRecord(r) ==
    /\ temp_in_celsius = r.temp_in_celsius
    /\ current_brightness = r.current_brightness
    /\ showGauge = r.showGauge
    /\ sound_enabled = r.sound_enabled
    /\ volume_level = r.volume_level
    /\ current_emissivity = r.current_emissivity

\* RAM and the widget tree as the static initialisers leave them
ResetRam ==
    /\ SetRecord(DefaultRecord(variant))
    /\ selected_menu_item' = 0
    /\ menu_active' = FALSE
    /\ bar_active' = FALSE
    /\ brightness_menu_active' = FALSE
    /\ selected_brightness' = 0
    /\ sound_menu_active' = FALSE
    /\ emissivity_changed' = FALSE
    /\ changed_since_entry' = FALSE
    /\ pending_emissivity' = F32Zero
    /\ restart_countdown' = 0
    /\ emissivity_bar' = FALSE
    /\ brightness_dialog' = FALSE
    /\ sound_dialogs' = <<>>
    /\ msgboxes' = <<>>
    /\ restart_msgbox' = FALSE
    /\ backdrop' = FALSE
    /\ restart_timers' = 0
    /\ entered_emissivity' = F32Zero

Running == pc = "run"
\* a touch reaches the widgets of the screen: no backdrop lies over them
NoModal == ~backdrop

\* the three input lines, pulled up: a pressed button reads LOW
Pins == {"BUTTON2_PIN", "BUTTON1_PIN", "KEY_PIN"}
NoEvents == [p \in Pins |-> 0]

\* the main screen as setup() builds it: temp_value_label says
\* "Reading...", status_label is empty, the LED is green, the needle at 0
ReadingText == [shown |-> FALSE, degrees |-> 0, unit |-> "C"]

SetupScreen ==
    /\ objectTemp' = 0
    /\ temp_value_text' = ReadingText
    /\ status_text' = ""
    /\ led' = "Green"
    /\ meter_value' = 0

\* the static initialisers of the last sampled levels
SetupInputs ==
    /\ lastButton2State' = "HIGH"
    /\ lastButton1State' = "HIGH"
    /\ lastKeyState' = "HIGH"
    /\ held_events' = NoEvents
    /\ wraps' = {}

\* show_restart_confirmation: a new modal box on top, restart_msgbox -> it
ShowRestartConfirmation ==
    /\ msgboxes' = Append(msgboxes, TRUE)
    /\ restart_msgbox' = TRUE
    /\ backdrop' = TRUE

\* saveSettings() of record r, which the handler leaves in RAM
SaveRecord(r) ==
    /\ SetRecord(r)
    /\ eeprom' = SaveSettings(variant, r, eeprom)
    /\ committed' = Addrs
    /\ UNCHANGED emissivity_register

(***************************************************************************)
(* setup(): static initialisers, then loadSettings                         *)
(***************************************************************************)
Boot ==
    /\ pc \in {"off", "restart"}
    /\ pc' = "run"
    /\ LET r == LoadSettings(variant, Record, eeprom)
           s == SetEmissivity(r.current_emissivity, r.current_emissivity,
                              pending_emissivity, emissivity_changed)
       IN  /\ SetRecord([r EXCEPT !.current_emissivity = s.current])
           /\ pending_emissivity' = s.pending
           /\ emissivity_changed' = s.changed
           /\ emissivity_register' =
                  WriteRegister(r.current_emissivity, r.current_emissivity,
                                emissivity_register)
    /\ eeprom' = LoadRewrite(variant, eeprom)
    /\ committed' = IF Migrates(variant, eeprom) THEN {SOUND_SETTINGS_ADDR}
                                                 ELSE committed
    /\ migrations' = migrations + (IF Migrates(variant, eeprom) THEN 1 ELSE 0)
    /\ ticks' = 0
    /\ tone' = FALSE
    /\ SetupScreen
    /\ SetupInputs
    /\ round_trip' = IF Len(round_trip) = 1
                      THEN Append(round_trip,
                                  LoadSettings(variant, Record, eeprom))
                      ELSE round_trip
    /\ UNCHANGED <<variant, pin_level, menuVars, widgetVars,
                   changed_since_entry, restart_countdown, msgboxes,
                   restart_msgbox, backdrop, restart_timers, entered_emissivity>>

\* power is removed: RAM is lost, the stored bytes stay
PowerOff ==
    /\ pc = "run"
    /\ pc' = "off"
    /\ ResetRam
    /\ ticks' = 0
    /\ tone' = FALSE
    /\ UNCHANGED <<fixedVars, storeVars, migrations>>

(***************************************************************************)
(* handle_menu_selection(selected_menu_item)                               *)
(***************************************************************************)
\* a case 0 or case 4 that saves the record it found and flips the flag
\* afterwards
SelectToggleSavesFirst(r) ==
    /\ SetRecord(r)
    /\ eeprom' = SaveSettings(variant, Record, eeprom)
    /\ committed' = Addrs
    /\ UNCHANGED emissivity_register
    /\ menu_active' = FALSE
    /\ UNCHANGED <<selected_menu_item, bar_active, brightness_menu_active,
                   selected_brightness, sound_menu_active, restartVars,
                   widgetVars>>

\* case 0 and case 4: flip one flag, save, leave the menu
SelectToggle(r) ==
    /\ SaveRecord(r)
    /\ menu_active' = FALSE
    /\ UNCHANGED <<selected_menu_item, bar_active, brightness_menu_active,
                   selected_brightness, sound_menu_active, restartVars,
                   widgetVars>>

\* case 1, full build: show_brightness_settings
ShowBrightnessSettings ==
    /\ brightness_menu_active' = TRUE
    /\ menu_active' = TRUE
    /\ selected_brightness' = current_brightness
    /\ brightness_dialog' = TRUE
    /\ UNCHANGED <<storeVars, recordVars, selected_menu_item, bar_active,
                   sound_menu_active, restartVars, emissivity_bar,
                   sound_dialogs>>

\* case 2: the emissivity bar is created unless one is active
SelectEmissivity ==
    /\ IF ~bar_active
       THEN /\ emissivity_bar' = TRUE
            /\ bar_active' = TRUE
            /\ entered_emissivity' = current_emissivity
       ELSE UNCHANGED <<emissivity_bar, bar_active, entered_emissivity>>
    /\ UNCHANGED <<storeVars, recordVars, selected_menu_item, menu_active,
                   brightness_menu_active, selected_brightness,
                   sound_menu_active, changedVars, pending_emissivity,
                   restart_countdown, msgboxes, restart_msgbox, backdrop,
                   restart_timers, ticks, brightness_dialog, sound_dialogs>>

\* case 3: show_sound_settings; only the full build tracks the dialog in
\* sound_menu_active
ShowSoundSettings ==
    /\ sound_dialogs' = Append(sound_dialogs, sound_enabled)
    /\ IF variant = "full"
       THEN sound_menu_active' = TRUE /\ menu_active' = TRUE
       ELSE UNCHANGED <<sound_menu_active, menu_active>>
    /\ UNCHANGED <<storeVars, recordVars, selected_menu_item, bar_active,
                   brightness_menu_active, selected_brightness, restartVars,
                   emissivity_bar, brightness_dialog>>

\* case 5: Exit
SelectExit ==
    /\ IF emissivity_changed
       THEN ShowRestartConfirmation /\ UNCHANGED menu_active
       ELSE menu_active' = FALSE /\ UNCHANGED <<msgboxes, restart_msgbox, backdrop>>
    /\ UNCHANGED <<storeVars, recordVars, selected_menu_item, bar_active,
                   brightness_menu_active, selected_brightness,
                   sound_menu_active, changedVars, pending_emissivity,
                   restart_countdown, restart_timers, ticks,
                   entered_emissivity, widgetVars>>

HandleMenuSelection(item) ==
    \/ /\ item = 0
       /\ SelectToggle([Record EXCEPT !.temp_in_celsius = ~temp_in_celsius])
    \/ /\ item = 1
       /\ IF variant = "full"
          THEN ShowBrightnessSettings
          ELSE SelectToggle([Record EXCEPT !.current_brightness =
                   (current_brightness + 1) % BRIGHTNESS_LEVELS(variant)])
    \/ /\ item = 2
       /\ SelectEmissivity
    \/ /\ item = 3
       /\ ShowSoundSettings
    \/ /\ item = 4
       /\ SelectToggle([Record EXCEPT !.showGauge = ~showGauge])
    \/ /\ item = 5
       /\ SelectExit

(***************************************************************************)
(* handle_button_press and the button dispatch of loop()                   *)
(***************************************************************************)
PrevItem(i) == IF i > 0 THEN i - 1 ELSE MENU_ITEMS - 1
\* a Next that wraps past the first item
NextItemWrapsToSecond(i) == IF i < MENU_ITEMS - 1 THEN i + 1 ELSE 1
NextItem(i) == IF i < MENU_ITEMS - 1 THEN i + 1 ELSE 0
PrevBrightness(b) == IF b > 0 THEN b - 1 ELSE BRIGHTNESS_LEVELS_FULL - 1
NextBrightness(b) == IF b < BRIGHTNESS_LEVELS_FULL - 1 THEN b + 1 ELSE 0
VolumeDown(vol) == IF vol > 25 THEN (vol - VOLUME_STEP) % 256 ELSE 25
VolumeUp(vol) == IF vol < 100 THEN (vol + VOLUME_STEP) % 256 ELSE 100

\* the state the button handlers dispatch on
InBar == variant = "full" /\ bar_active
InSound == variant = "full" /\ ~bar_active /\ sound_menu_active
InBrightness == variant = "full" /\ ~bar_active /\ ~sound_menu_active
                /\ brightness_menu_active
InMenu == /\ menu_active
          /\ variant = "full" =>
                ~bar_active /\ ~sound_menu_active /\ ~brightness_menu_active
InMain == /\ ~menu_active
          /\ variant = "full" =>
                ~bar_active /\ ~sound_menu_active /\ ~brightness_menu_active

\* Button1 or Button2 while the sound dialog of the full build is open
AdjustVolume(vol) ==
    /\ volume_level' = vol
    /\ UNCHANGED <<storeVars, temp_in_celsius, current_brightness, showGauge,
                   sound_enabled, current_emissivity, menuVars, restartVars,
                   widgetVars>>

\* Button1 or Button2 while the brightness dialog of the full build is open
AdjustBrightness(b) ==
    /\ selected_brightness' = b
    /\ current_brightness' = b
    /\ UNCHANGED <<storeVars, temp_in_celsius, showGauge, sound_enabled,
                   volume_level, current_emissivity, selected_menu_item,
                   menu_active, bar_active, brightness_menu_active,
                   sound_menu_active, restartVars, widgetVars>>

MoveSelection(i) ==
    /\ selected_menu_item' = i
    /\ UNCHANGED <<storeVars, recordVars, menu_active, bar_active,
                   brightness_menu_active, selected_brightness,
                   sound_menu_active, restartVars, widgetVars>>

Ignored == UNCHANGED <<storeVars, recordVars, menuVars, restartVars, widgetVars>>

\* the speaker during handle_button_press(BUTTON1_PIN or BUTTON2_PIN):
\* silent while the bar is active; update_volume_selection beeps only while
\* the sound dialog exists
ButtonTone ==
    IF InBar THEN FALSE
    ELSE IF InSound THEN sound_dialogs # <<>> /\ MenuBeep
    ELSE MenuBeep

\* handle_button_press(BUTTON1_PIN): up / previous / unit toggle
HandleButton1 ==
    /\ \/ InBar /\ Ignored
       \/ InSound /\ AdjustVolume(VolumeDown(volume_level))
       \/ InBrightness /\ AdjustBrightness(PrevBrightness(selected_brightness))
       \/ InMenu /\ MoveSelection(PrevItem(selected_menu_item))
       \/ /\ InMain
          /\ SaveRecord([Record EXCEPT !.temp_in_celsius = ~temp_in_celsius])
          /\ UNCHANGED <<menuVars, restartVars, widgetVars>>
    /\ tone' = ButtonTone

\* handle_button_press(BUTTON2_PIN): down / next / open menu
HandleButton2 ==
    /\ \/ InBar /\ Ignored
       \/ InSound /\ AdjustVolume(VolumeUp(volume_level))
       \/ InBrightness /\ AdjustBrightness(NextBrightness(selected_brightness))
       \/ InMenu /\ MoveSelection(NextItem(selected_menu_item))
       \/ /\ InMain
          /\ menu_active' = TRUE
          /\ changed_since_entry' = FALSE
          /\ UNCHANGED <<storeVars, recordVars, selected_menu_item, bar_active,
                         brightness_menu_active, selected_brightness,
                         sound_menu_active, emissivity_changed,
                         pending_emissivity, restart_countdown, msgboxes,
                         restart_msgbox, backdrop, restart_timers, ticks,
                         entered_emissivity, widgetVars>>
    /\ tone' = ButtonTone

\* a press of Button1 reaches its handler
PressButton1 ==
    /\ Running
    /\ HandleButton1
    /\ UNCHANGED <<fixedVars, pc, migrations>>

\* a press of Button2 reaches its handler
PressButton2 ==
    /\ Running
    /\ HandleButton2
    /\ UNCHANGED <<fixedVars, pc, migrations>>

\* a close_brightness_menu that leaves the store as it is
CloseBrightnessMenuUnsaved ==
    /\ brightness_dialog' = FALSE
    /\ menu_active' = FALSE
    /\ brightness_menu_active' = FALSE
    /\ UNCHANGED <<storeVars, recordVars, selected_menu_item, bar_active,
                   selected_brightness, sound_menu_active, restartVars,
                   emissivity_bar, sound_dialogs>>

\* close_brightness_menu (full build)
CloseBrightnessMenu ==
    /\ SaveRecord(Record)
    /\ brightness_dialog' = FALSE
    /\ menu_active' = FALSE
    /\ brightness_menu_active' = FALSE
    /\ UNCHANGED <<selected_menu_item, bar_active, selected_brightness,
                   sound_menu_active, restartVars, emissivity_bar,
                   sound_dialogs>>

\* a close_sound_menu that leaves sound_menu_active set
CloseSoundMenuKeepsFlag ==
    IF sound_dialogs # <<>>
    THEN /\ SaveRecord(Record)
         /\ sound_dialogs' = <<>>
         /\ menu_active' = FALSE
         /\ UNCHANGED <<selected_menu_item, bar_active,
                        brightness_menu_active, selected_brightness,
                        sound_menu_active, restartVars, emissivity_bar,
                        brightness_dialog>>
    ELSE Ignored

\* close_sound_menu (full build)
CloseSoundMenu ==
    IF sound_dialogs # <<>>
    THEN /\ SaveRecord(Record)
         /\ sound_dialogs' = <<>>
         /\ sound_menu_active' = FALSE
         /\ menu_active' = FALSE
         /\ UNCHANGED <<selected_menu_item, bar_active,
                        brightness_menu_active, selected_brightness,
                        restartVars, emissivity_bar, brightness_dialog>>
    ELSE Ignored

\* KEY in the full build: loop() closes an open dialog itself and passes
\* every other press to handle_button_press(KEY_PIN)
PressKeyFull ==
    IF brightness_menu_active THEN CloseBrightnessMenu
    ELSE IF sound_menu_active THEN CloseSoundMenu
    ELSE IF bar_active THEN Ignored
    ELSE IF menu_active THEN HandleMenuSelection(selected_menu_item)
    ELSE Ignored

\* KEY in the simple build: loop() handles it without handle_button_press
PressKeySimple ==
    IF bar_active
    THEN /\ emissivity_bar' = FALSE
         /\ bar_active' = FALSE
         /\ IF emissivity_changed
            THEN ShowRestartConfirmation /\ UNCHANGED menu_active
            ELSE menu_active' = FALSE /\ UNCHANGED <<msgboxes, restart_msgbox, backdrop>>
         /\ UNCHANGED <<storeVars, recordVars, selected_menu_item,
                        brightness_menu_active, selected_brightness,
                        sound_menu_active, changedVars,
                        pending_emissivity, restart_countdown, restart_timers,
                        ticks, entered_emissivity, brightness_dialog,
                        sound_dialogs>>
    ELSE IF menu_active THEN HandleMenuSelection(selected_menu_item)
    ELSE /\ SaveRecord([Record EXCEPT !.showGauge = ~showGauge])
         /\ UNCHANGED <<menuVars, restartVars, widgetVars>>

\* the speaker during the KEY branch: close_sound_menu beeps only while the
\* dialog exists, handle_button_press(KEY_PIN) beeps only inside the menu
KeyTone ==
    IF variant = "simple" THEN PlayBeep(sound_enabled)
    ELSE IF brightness_menu_active THEN MenuBeep
    ELSE IF sound_menu_active THEN sound_dialogs # <<>> /\ MenuBeep
    ELSE IF bar_active THEN FALSE
    ELSE IF menu_active THEN MenuBeep
    ELSE FALSE

\* the KEY branch of loop()
HandleKey ==
    /\ IF variant = "full" THEN PressKeyFull ELSE PressKeySimple
    /\ tone' = KeyTone

\* a press of the Key unit reaches the KEY branch
PressKey ==
    /\ Running
    /\ HandleKey
    /\ UNCHANGED <<fixedVars, pc, migrations>>

(***************************************************************************)
(* The input lines and their polling in loop()                             *)
(***************************************************************************)
\* a button is pushed: its line goes LOW
PressLine ==
    /\ \E p \in Pins :
         /\ pin_level[p] = "HIGH"
         /\ pin_level' = [pin_level EXCEPT ![p] = "LOW"]
    /\ UNCHANGED <<variant, round_trip, lastButton2State, lastButton1State,
                   lastKeyState, held_events, wraps, sensorVars, pc, storeVars,
                   recordVars, menuVars, restartVars, widgetVars, migrations,
                   tone>>

\* a button is let go: its line goes back HIGH
ReleaseLine ==
    /\ \E p \in Pins :
         /\ pin_level[p] = "LOW"
         /\ pin_level' = [pin_level EXCEPT ![p] = "HIGH"]
    /\ UNCHANGED <<variant, round_trip, lastButton2State, lastButton1State,
                   lastKeyState, held_events, wraps, sensorVars, pc, storeVars,
                   recordVars, menuVars, restartVars, widgetVars, migrations,
                   tone>>

\* a test that takes every LOW sample for a press
PressDetectedByLevel(state, last) == state = "LOW"

\* buttonState == LOW && lastButtonState == HIGH
PressDetected(state, last) == state = "LOW" /\ last = "HIGH"

\* the press events of line p since it was last sampled HIGH
CountEvent(p, state, last) ==
    held_events' = [held_events EXCEPT ![p] =
                       IF state = "HIGH" THEN 0
                       ELSE IF PressDetected(state, last) THEN @ + 1
                       ELSE @]

\* the end of a range that a press of Button1 (Prev) or Button2 (Next)
\* finds its index at
EndFound(p) ==
    IF InBrightness
    THEN IF p = "BUTTON1_PIN" /\ selected_brightness = 0
         THEN {"BrightnessPrev"}
         ELSE IF p = "BUTTON2_PIN"
                  /\ selected_brightness = BRIGHTNESS_LEVELS_FULL - 1
         THEN {"BrightnessNext"}
         ELSE {}
    ELSE IF InMenu
    THEN IF p = "BUTTON1_PIN" /\ selected_menu_item = 0
         THEN {"MenuPrev"}
         ELSE IF p = "BUTTON2_PIN" /\ selected_menu_item = MENU_ITEMS - 1
         THEN {"MenuNext"}
         ELSE {}
    ELSE {}

NoteEnd(p, state, last) ==
    wraps' = IF PressDetected(state, last) THEN wraps \cup EndFound(p)
                                           ELSE wraps

\* no handler runs
NoPress == UNCHANGED <<storeVars, recordVars, menuVars, restartVars,
                       widgetVars, tone>>

\* loop(): digitalRead(BUTTON2_PIN), the handler on a falling edge, then
\* lastButton2State = button2State
PollButton2 ==
    /\ Running
    /\ LET button2State == pin_level["BUTTON2_PIN"]
       IN  /\ IF PressDetected(button2State, lastButton2State)
              THEN HandleButton2 ELSE NoPress
           /\ CountEvent("BUTTON2_PIN", button2State, lastButton2State)
           /\ NoteEnd("BUTTON2_PIN", button2State, lastButton2State)
           /\ lastButton2State' = button2State
    /\ UNCHANGED <<variant, round_trip, pin_level, lastButton1State,
                   lastKeyState, sensorVars, pc, migrations>>

\* loop(): the same for BUTTON1_PIN
PollButton1 ==
    /\ Running
    /\ LET button1State == pin_level["BUTTON1_PIN"]
       IN  /\ IF PressDetected(button1State, lastButton1State)
              THEN HandleButton1 ELSE NoPress
           /\ CountEvent("BUTTON1_PIN", button1State, lastButton1State)
           /\ NoteEnd("BUTTON1_PIN", button1State, lastButton1State)
           /\ lastButton1State' = button1State
    /\ UNCHANGED <<variant, round_trip, pin_level, lastButton2State,
                   lastKeyState, sensorVars, pc, migrations>>

\* loop(): the same for KEY_PIN, whose presses the KEY branch handles
PollKey ==
    /\ Running
    /\ LET keyState == pin_level["KEY_PIN"]
       IN  /\ IF PressDetected(keyState, lastKeyState)
              THEN HandleKey ELSE NoPress
           /\ CountEvent("KEY_PIN", keyState, lastKeyState)
           /\ UNCHANGED wraps
           /\ lastKeyState' = keyState
    /\ UNCHANGED <<variant, round_trip, pin_level, lastButton2State,
                   lastButton1State, sensorVars, pc, migrations>>

(***************************************************************************)
(* The sensor and the temperature update of loop()                         *)
(*                                                                         *)
(* Temperatures are kept in thousandths of a degree.  The firmware computes *)
(* raw * 0.02 - 273.15 in double and stores a float; every such value is   *)
(* an odd number of hundredths, and its Fahrenheit image an even number of *)
(* thousandths that is no multiple of 500, so the rounding of the floating *)
(* point operations (below 0.0001) never reaches a threshold, a half or an *)
(* integer, and the comparisons, round() and the conversion to int give    *)
(* what they give on the exact decimal value.                              *)
(***************************************************************************)
\* return -999.0
SensorFailed == -999 * 1000

\* one transaction on the bus: whether the sensor acknowledged, and the
\* bytes it returned, low byte first
TwoBytes(lo, hi) == [ack |-> TRUE, bytes |-> <<lo, hi>>]

\* a read that takes the first byte for the high one
ReadObjectTemperatureBigEndian(bus) ==
    IF ~bus.ack THEN SensorFailed
    ELSE IF Len(bus.bytes) # 2 THEN SensorFailed
    ELSE 20 * (256 * bus.bytes[1] + bus.bytes[2]) - 273150

\* object_raw * 0.02 - 273.15, or -999.0 when the sensor did not
\* acknowledge or returned fewer than two bytes
ReadObjectTemperature(bus) ==
    IF ~bus.ack THEN SensorFailed
    ELSE IF Len(bus.bytes) # 2 THEN SensorFailed
    ELSE LET object_raw == bus.bytes[1] + 256 * bus.bytes[2]
         IN  20 * object_raw - 273150

\* a test that lets every reading through
AnyReading(t) == TRUE

\* objectTemp > -273.15: the float of raw 0 is -273.149994, above the
\* double -273.15 it is compared with
AboveAbsoluteZero(t) == t >= -273150

\* objectTemp * 9.0 / 5.0 + 32.0
Fahrenheit(t) == (t * 9) \div 5 + 32000

\* (int)round(objectTemp): halves away from zero
RoundDegrees(t) ==
    IF t >= 0 THEN (t + 500) \div 1000 ELSE -((500 - t) \div 1000)

\* the int32_t that lv_meter_set_indicator_value receives
TruncDegrees(t) == IF t >= 0 THEN t \div 1000 ELSE -((-t) \div 1000)

\* the status text and LED colour of a temperature against the thresholds
\* of the unit shown
StatusOf(t, cold, low, high, hot) ==
    IF t < cold * 1000 THEN <<"TOO COLD", "Blue">>
    ELSE IF t < low * 1000 THEN <<"HEATING UP", "Yellow">>
    ELSE IF t <= high * 1000 THEN <<"PERFECT!", "Green">>
    ELSE IF t <= hot * 1000 THEN <<"COOLING DOWN", "Orange">>
    ELSE <<"TOO HOT!", "Red">>

Status(t, celsius) ==
    IF celsius
    THEN StatusOf(t, TEMP_TOO_COLD_C, TEMP_LOW_C, TEMP_HIGH_C, TEMP_TOO_HOT_C)
    ELSE StatusOf(t, TEMP_TOO_COLD_F, TEMP_LOW_F, TEMP_HIGH_F, TEMP_TOO_HOT_F)

\* raw register values: the scenario of the specification, the ends of the
\* range, and the two readings next to each threshold of either unit
ScenarioReading == TwoBytes(16, 58)
SensorRaws ==
    {0, 65535, 23857, 23858, 25257, 25258, 29457, 29458, 30807, 30808,
     23879, 23880, 25268, 25269, 29435, 29436, 30824, 30825}
BusResults ==
    {[ack |-> FALSE, bytes |-> <<>>], [ack |-> TRUE, bytes |-> <<>>],
     [ack |-> TRUE, bytes |-> <<16>>], ScenarioReading}
    \cup {TwoBytes(raw % 256, raw \div 256) : raw \in SensorRaws}

\* loop(), once TEMP_UPDATE_INTERVAL has passed: read the sensor and, if the
\* reading is one, show it
TempUpdate ==
    /\ Running
    /\ \E bus \in BusResults :
         LET t == ReadObjectTemperature(bus)
             shown == IF temp_in_celsius THEN t ELSE Fahrenheit(t)
         IN  IF AboveAbsoluteZero(t)
             THEN /\ objectTemp' = shown
                  /\ temp_value_text' =
                        [shown |-> TRUE, degrees |-> RoundDegrees(shown),
                         unit |-> IF temp_in_celsius THEN "C" ELSE "F"]
                  /\ meter_value' = TruncDegrees(shown)
                  /\ status_text' = Status(shown, temp_in_celsius)[1]
                  /\ led' = Status(shown, temp_in_celsius)[2]
             ELSE /\ objectTemp' = t
                  /\ UNCHANGED <<temp_value_text, meter_value, status_text,
                                 led>>
    /\ UNCHANGED <<variant, round_trip, inputVars, pc, storeVars, recordVars,
                   menuVars, restartVars, widgetVars, migrations, tone>>

(***************************************************************************)
(* Widget event callbacks                                                  *)
(***************************************************************************)
\* emissivity_slider_event_cb: pos = (float)dx / (x2 - x1), clamped to
\* [0, 1]; new_emissivity = 0.65f + pos * 0.35f
\* a callback without "if (pos > 1) pos = 1"
SliderPositionNoUpperClamp(dx) ==
    IF dx <= 0 THEN F32Zero
    ELSE F32Div(F32FromInt(dx), F32FromInt(EMISSIVITY_BAR_WIDTH - 1))

SliderPosition(dx) ==
    IF dx <= 0 THEN F32Zero
    ELSE IF dx >= EMISSIVITY_BAR_WIDTH - 1 THEN F32FromInt(1)
    ELSE F32Div(F32FromInt(dx), F32FromInt(EMISSIVITY_BAR_WIDTH - 1))

SliderEmissivity(dx) ==
    F32Add(EMISSIVITY_MIN, F32Mul(SliderPosition(dx), EMISSIVITY_SPAN))

\* LV_EVENT_PRESSED / LV_EVENT_PRESSING on the emissivity bar
EmissivitySliderEvent ==
    /\ Running /\ NoModal /\ emissivity_bar
    /\ \E dx \in SliderPoints :
         LET s == SetEmissivity(SliderEmissivity(dx), current_emissivity,
                                pending_emissivity, emissivity_changed)
         IN  /\ current_emissivity' = s.current
             /\ pending_emissivity' = s.pending
             /\ emissivity_changed' = s.changed
             /\ changed_since_entry' =
                    (changed_since_entry \/ s.current # current_emissivity)
             /\ emissivity_register' =
                    WriteRegister(SliderEmissivity(dx), current_emissivity,
                                  emissivity_register)
    /\ tone' = FALSE
    /\ UNCHANGED <<fixedVars, pc, eeprom, committed, migrations,
                   temp_in_celsius,
                   current_brightness, showGauge, sound_enabled, volume_level,
                   menuVars, restart_countdown, msgboxes, restart_msgbox, backdrop,
                   restart_timers, ticks, entered_emissivity, widgetVars>>

\* LV_EVENT_VALUE_CHANGED on the switch of the top sound dialog
SoundSwitchEvent ==
    /\ Running /\ NoModal /\ sound_dialogs # <<>>
    /\ LET top == Len(sound_dialogs)
           is_checked == ~sound_dialogs[top]
       IN  /\ sound_enabled' = is_checked
           /\ sound_dialogs' = [sound_dialogs EXCEPT ![top] = is_checked]
           /\ tone' = (is_checked /\ PlayBeep(is_checked))
    /\ UNCHANGED <<fixedVars, pc, storeVars, migrations, temp_in_celsius,
                   current_brightness, showGauge, volume_level,
                   current_emissivity, menuVars, restartVars, emissivity_bar,
                   brightness_dialog>>

\* LV_EVENT_VALUE_CHANGED on the volume slider (full build)
VolumeSliderEvent ==
    /\ Running /\ NoModal /\ variant = "full" /\ sound_dialogs # <<>>
    /\ \E value \in VolumeSliderValues : volume_level' = value
    /\ tone' = MenuBeep
    /\ UNCHANGED <<fixedVars, pc, storeVars, migrations, temp_in_celsius,
                   current_brightness, showGauge, sound_enabled,
                   current_emissivity, menuVars, restartVars, widgetVars>>

\* LV_EVENT_VALUE_CHANGED on the volume button matrix (simple build)
VolumeButtonEvent ==
    /\ Running /\ NoModal /\ variant = "simple" /\ sound_dialogs # <<>>
    /\ \E id \in 0..3 : volume_level' = (id + 1) * 25
    /\ tone' = MenuBeep
    /\ UNCHANGED <<fixedVars, pc, storeVars, migrations, temp_in_celsius,
                   current_brightness, showGauge, sound_enabled,
                   current_emissivity, menuVars, restartVars, widgetVars>>

\* LV_EVENT_CLICKED on the OK button of the top sound dialog
SoundOkEvent ==
    /\ Running /\ NoModal /\ sound_dialogs # <<>>
    /\ IF variant = "full"
       THEN CloseSoundMenu
       ELSE /\ SaveRecord(Record)
            /\ sound_dialogs' = SubSeq(sound_dialogs, 1, Len(sound_dialogs) - 1)
            /\ menu_active' = FALSE
            /\ UNCHANGED <<selected_menu_item, bar_active,
                           brightness_menu_active, selected_brightness,
                           sound_menu_active, restartVars, emissivity_bar,
                           brightness_dialog>>
    /\ tone' = MenuBeep
    /\ UNCHANGED <<fixedVars, pc, migrations>>

\* LV_EVENT_VALUE_CHANGED on the brightness button matrix (full build)
BrightnessButtonEvent ==
    /\ Running /\ NoModal /\ brightness_dialog
    /\ \E id \in 0..(BRIGHTNESS_LEVELS_FULL - 1) : AdjustBrightness(id)
    /\ tone' = MenuBeep
    /\ UNCHANGED <<fixedVars, pc, migrations>>

\* LV_EVENT_CLICKED on the OK button of the brightness dialog (full build)
BrightnessOkEvent ==
    /\ Running /\ NoModal /\ brightness_dialog
    /\ CloseBrightnessMenu
    /\ tone' = MenuBeep
    /\ UNCHANGED <<fixedVars, pc, migrations>>

(***************************************************************************)
(* The restart dialog and its countdown                                    *)
(***************************************************************************)
\* a touch reaches the buttons of a restart message box: the backdrop on
\* top of the layer is the one made last and takes every touch outside its
\* own box, so the box is the one restart_msgbox points to, and it still
\* shows its buttons
TopHasButtons ==
    /\ restart_msgbox
    /\ msgboxes # <<>>
    /\ msgboxes[Len(msgboxes)]

\* restart_msgbox_event_cb, "Yes, restart"
RestartYesEvent ==
    /\ Running /\ TopHasButtons
    /\ restart_countdown' = RESTART_SECONDS
    /\ msgboxes' = [msgboxes EXCEPT ![Len(msgboxes)] = FALSE]
    /\ restart_timers' = restart_timers + 1
    /\ SaveRecord(Record)
    /\ tone' = PlayBeep(sound_enabled)
    /\ UNCHANGED <<fixedVars, pc, migrations, menuVars, widgetVars,
                   changedVars, pending_emissivity, restart_msgbox, backdrop,
                   ticks, entered_emissivity>>

\* a "No, cancel" that also deletes the timers and clears the countdown
RestartNoEventStopsCountdown ==
    /\ Running /\ TopHasButtons
    /\ current_emissivity' = pending_emissivity
    /\ emissivity_bar' = (IF variant = "full" THEN FALSE ELSE emissivity_bar)
    /\ msgboxes' = SubSeq(msgboxes, 1, Len(msgboxes) - 1)
    /\ restart_msgbox' = FALSE
    /\ emissivity_changed' = FALSE
    /\ changed_since_entry' = FALSE
    /\ restart_countdown' = 0
    /\ restart_timers' = 0
    /\ tone' = PlayBeep(sound_enabled)
    /\ UNCHANGED <<fixedVars, pc, migrations, storeVars, temp_in_celsius,
                   current_brightness, showGauge, sound_enabled, volume_level,
                   menuVars, pending_emissivity, backdrop, ticks,
                   entered_emissivity, brightness_dialog, sound_dialogs>>

\* restart_msgbox_event_cb, "No, cancel": the box is deleted, its backdrop
\* stays
RestartNoEvent ==
    /\ Running /\ TopHasButtons
    /\ current_emissivity' = pending_emissivity
    /\ emissivity_bar' = (IF variant = "full" THEN FALSE ELSE emissivity_bar)
    /\ msgboxes' = SubSeq(msgboxes, 1, Len(msgboxes) - 1)
    /\ restart_msgbox' = FALSE
    /\ emissivity_changed' = FALSE
    /\ changed_since_entry' = FALSE
    /\ tone' = PlayBeep(sound_enabled)
    /\ UNCHANGED <<fixedVars, pc, migrations, storeVars, temp_in_celsius,
                   current_brightness, showGauge, sound_enabled, volume_level,
                   menuVars, pending_emissivity, restart_countdown, backdrop,
                   restart_timers, ticks, entered_emissivity,
                   brightness_dialog, sound_dialogs>>

\* restart_countdown--
CountDown(c) == c - 1

\* restart_timer_cb -> update_restart_countdown, for one of the timers
RestartTimerTick ==
    /\ Running /\ restart_timers > 0
    /\ ticks' = ticks + 1
    /\ tone' = (restart_countdown > 0 /\ PlayBeep(sound_enabled))
    /\ IF restart_countdown > 0
       THEN IF CountDown(restart_countdown) = 0
            THEN pc' = "restart" /\ ResetRam      \* ESP.restart()
            ELSE /\ restart_countdown' = CountDown(restart_countdown)
                 /\ UNCHANGED <<pc, recordVars, menuVars, widgetVars,
                                changedVars, pending_emissivity,
                                msgboxes, restart_msgbox, backdrop, restart_timers,
                                entered_emissivity>>
       ELSE UNCHANGED <<pc, recordVars, menuVars, widgetVars,
                        changedVars, pending_emissivity,
                        restart_countdown, msgboxes, restart_msgbox, backdrop,
                        restart_timers, entered_emissivity>>
    /\ UNCHANGED <<fixedVars, storeVars, migrations>>

(***************************************************************************)
(* The firmware as a state machine                                         *)
(***************************************************************************)
\* before the first setup(): nothing committed, the speaker silent, the
\* buttons released, the screen not built
InitRest ==
    /\ committed = {}
    /\ emissivity_register = <<>>
    /\ tone = FALSE
    /\ changed_since_entry = FALSE
    /\ pin_level = [p \in Pins |-> "HIGH"]
    /\ lastButton2State = "HIGH"
    /\ lastButton1State = "HIGH"
    /\ lastKeyState = "HIGH"
    /\ held_events = NoEvents
    /\ wraps = {}
    /\ objectTemp = 0
    /\ temp_value_text = ReadingText
    /\ status_text = ""
    /\ led = "Green"
    /\ meter_value = 0

Init ==
    /\ variant \in Variants
    /\ pc = "off"
    /\ eeprom \in InitialStores
    /\ HoldsRecord(DefaultRecord(variant))
    /\ selected_menu_item = 0
    /\ menu_active = FALSE
    /\ bar_active = FALSE
    /\ brightness_menu_active = FALSE
    /\ selected_brightness = 0
    /\ sound_menu_active = FALSE
    /\ emissivity_changed = FALSE
    /\ pending_emissivity = F32Zero
    /\ restart_countdown = 0
    /\ emissivity_bar = FALSE
    /\ brightness_dialog = FALSE
    /\ sound_dialogs = <<>>
    /\ msgboxes = <<>>
    /\ restart_msgbox = FALSE
    /\ backdrop = FALSE
    /\ restart_timers = 0
    /\ migrations = 0
    /\ ticks = 0
    /\ entered_emissivity = F32Zero
    /\ round_trip = <<>>
    /\ InitRest

\* every step of the firmware; the dialogs pile up without limit here, so
\* this specification has infinitely many states
Next ==
    \/ Boot
    \/ PowerOff
    \/ PressButton1
    \/ PressButton2
    \/ PressKey
    \/ TempUpdate
    \/ EmissivitySliderEvent
    \/ SoundSwitchEvent
    \/ VolumeSliderEvent
    \/ VolumeButtonEvent
    \/ SoundOkEvent
    \/ BrightnessButtonEvent
    \/ BrightnessOkEvent
    \/ RestartYesEvent
    \/ RestartNoEvent
    \/ RestartTimerTick

Spec == Init /\ [][Next]_vars

(***************************************************************************)
(* The firmware while the user attends to one concern                      *)
(***************************************************************************)
\* what the user leaves alone in these runs: the gauge, which is the gauge
\* item of the menu in both builds and also KEY on the main screen in the
\* simple build; in the simple build the brightness item and the sound
\* dialog too; and the user presses KEY for another restart message box
\* only while fewer than FocusMsgboxes are open
Focus ==
    /\ UNCHANGED showGauge
    /\ Len(msgboxes') <= FocusMsgboxes
    /\ variant = "simple" =>
          /\ UNCHANGED current_brightness
          /\ sound_dialogs' = <<>>

\* the simple build starts from erased flash, the full build from the record
\* the simple build left in the store
InitFocus ==
    /\ Init
    /\ eeprom = (IF variant = "simple" THEN BlankStore ELSE LegacyStore)

NextFocus ==
    \/ Boot
    \/ PowerOff
    \/ (PressButton1 /\ Focus)
    \/ (PressButton2 /\ Focus)
    \/ (PressKey /\ Focus)
    \/ EmissivitySliderEvent
    \/ SoundSwitchEvent
    \/ VolumeSliderEvent
    \/ SoundOkEvent
    \/ BrightnessButtonEvent
    \/ BrightnessOkEvent
    \/ RestartYesEvent
    \/ RestartNoEvent
    \/ RestartTimerTick

SpecFocus == InitFocus /\ [][NextFocus]_vars

(***************************************************************************)
(* The firmware while the user attends to the emissivity only              *)
(***************************************************************************)
\* what the user leaves alone in these runs: the unit (Button1 on the main
\* screen and the unit item of the menu), the gauge (the gauge item and, in
\* the simple build, KEY on the main screen), the brightness and the sound
\* dialog; and the user presses KEY for another restart message box only
\* while fewer than FocusMsgboxes are open
Emissive ==
    /\ UNCHANGED <<temp_in_celsius, showGauge, current_brightness>>
    /\ sound_dialogs' = <<>>
    /\ Len(msgboxes') <= FocusMsgboxes

InitEmissivity ==
    /\ Init
    /\ eeprom \in EmissivityStores

NextEmissivity ==
    \/ Boot
    \/ PowerOff
    \/ (PressButton1 /\ Emissive)
    \/ (PressButton2 /\ Emissive)
    \/ (PressKey /\ Emissive)
    \/ EmissivitySliderEvent
    \/ RestartYesEvent
    \/ RestartNoEvent
    \/ RestartTimerTick

SpecEmissivity == InitEmissivity /\ [][NextEmissivity]_vars

(***************************************************************************)
(* The firmware started with the sound switched off                        *)
(***************************************************************************)
\* what the user leaves alone in these runs: the unit (Button1 on the main
\* screen and the unit item of the menu), the gauge (the gauge item and, in
\* the simple build, KEY on the main screen) and the brightness; the
\* emissivity bar is touched at one point only; and the user
\* presses KEY for another restart message box or sound dialog only while
\* fewer than MaxMsgboxes, MaxSoundDialogs of them are open
Quiet ==
    /\ UNCHANGED <<temp_in_celsius, showGauge, current_brightness>>
    /\ Len(msgboxes') <= MaxMsgboxes
    /\ Len(sound_dialogs') <= MaxSoundDialogs
OnePoint == current_emissivity' \in {current_emissivity, SliderEmissivity(45)}

InitQuiet ==
    /\ Init
    /\ eeprom = QuietStore(variant)

NextQuiet ==
    \/ Boot
    \/ PowerOff
    \/ (PressButton1 /\ Quiet)
    \/ (PressButton2 /\ Quiet)
    \/ (PressKey /\ Quiet)
    \/ (EmissivitySliderEvent /\ OnePoint)
    \/ SoundSwitchEvent
    \/ VolumeSliderEvent
    \/ VolumeButtonEvent
    \/ SoundOkEvent
    \/ RestartYesEvent
    \/ RestartNoEvent
    \/ RestartTimerTick

SpecQuiet == InitQuiet /\ [][NextQuiet]_vars

(***************************************************************************)
(* The firmware driven through its three input lines only                  *)
(***************************************************************************)
\* what the user leaves alone in these runs: the volume and the brightness;
\* and the user presses KEY for another sound dialog only while fewer than
\* MaxSoundDialogs are open
Steady ==
    /\ UNCHANGED <<volume_level, current_brightness>>
    /\ Len(sound_dialogs') <= MaxSoundDialogs

NextInput ==
    \/ Boot
    \/ PressLine
    \/ ReleaseLine
    \/ (PollButton2 /\ Steady)
    \/ (PollButton1 /\ Steady)
    \/ (PollKey /\ Steady)

InitInput ==
    /\ Init
    /\ eeprom = BlankStore

SpecInput == InitInput /\ [][NextInput]_vars

(***************************************************************************)
(* The firmware while the user walks through the menu and the brightness   *)
(* levels with the three buttons                                           *)
(***************************************************************************)
\* what the user leaves alone in these runs: the unit (Button1 on the main
\* screen and the unit item of the menu), the gauge (the gauge item and, in
\* the simple build, KEY on the main screen), the sound dialog and the
\* emissivity bar; the touch screen is not used
Turn ==
    /\ UNCHANGED <<temp_in_celsius, showGauge, sound_enabled, volume_level>>
    /\ sound_dialogs' = <<>>
    /\ ~emissivity_bar'

NextCycle ==
    \/ Boot
    \/ PressLine
    \/ ReleaseLine
    \/ (PollButton2 /\ Turn)
    \/ (PollButton1 /\ Turn)
    \/ (PollKey /\ Turn)

SpecCycle == InitFocus /\ [][NextCycle]_vars

(***************************************************************************)
(* The firmware on its main screen: the sensor is read and the unit        *)
(* toggled with Button1                                                    *)
(***************************************************************************)
NextSensor ==
    \/ Boot
    \/ PowerOff
    \/ TempUpdate
    \/ (PressButton1 /\ InMain)

InitSensor ==
    /\ Init
    /\ eeprom = BlankStore

SpecSensor == InitSensor /\ [][NextSensor]_vars

(***************************************************************************)
(* The settings codec on its own: saveSettings, power cycle, loadSettings  *)
(***************************************************************************)
\* emissivities of a record about to be saved: whole hundredths, and values
\* the emissivity bar produces
CodecHundredths == 65..100
CodecEmissivities ==
    {F32Hundredths(n) : n \in {65, 73, 95, 100}}
        \cup {SliderEmissivity(dx) : dx \in SliderPoints}

CodecVolumes(v) == IF v = "full" THEN 25..100 ELSE {25, 50, 75, 100}

\* the records that satisfy the data model of build v
CodecRecords(v) ==
    [temp_in_celsius : BOOLEAN,
     current_brightness : 0..(BRIGHTNESS_LEVELS(v) - 1),
     showGauge : BOOLEAN,
     sound_enabled : BOOLEAN,
     volume_level : CodecVolumes(v),
     current_emissivity : CodecEmissivities]
    \cup {[DefaultRecord(v) EXCEPT !.current_emissivity = F32Hundredths(n)] :
            n \in CodecHundredths}

CodecSentinels == {SETTINGS_VALID_VALUE, 0, 84, 255}
CodecEmissivityBytes == {<<90, 0>>, <<64, 0>>, <<101, 0>>, <<16, 58>>,
                         <<255, 255>>}
CodecStores ==
    {Store(valid, 0, 1, 2, 90, 0, sound) :
        valid \in CodecSentinels, sound \in Bytes}
    \cup {Store(valid, unit, gauge, brightness, e[1], e[2], sound) :
            valid \in CodecSentinels, unit \in {0, 1, 2}, gauge \in {0, 1, 255},
            brightness \in {0, 3, 4, 5, 255}, e \in CodecEmissivityBytes,
            sound \in {2, 130, 228}}

\* saveSettings() on its own, once, with the record RAM holds
SaveSettingsCall ==
    /\ Running /\ round_trip = <<>>
    /\ eeprom' = SaveSettings(variant, Record, eeprom)
    /\ round_trip' = <<Record>>
    /\ committed' = Addrs
    /\ UNCHANGED emissivity_register
    /\ tone' = FALSE
    /\ UNCHANGED <<variant, inputVars, sensorVars, pc, recordVars, menuVars,
                   restartVars, widgetVars, migrations>>

InitCodec ==
    /\ variant \in Variants
    /\ round_trip = <<>>
    /\ \/ /\ pc = "run"
          /\ eeprom = BlankStore
          /\ \E r \in CodecRecords(variant) : HoldsRecord(r)
       \/ /\ pc = "off"
          /\ eeprom \in CodecStores
          /\ HoldsRecord(DefaultRecord(variant))
    /\ selected_menu_item = 0
    /\ menu_active = FALSE
    /\ bar_active = FALSE
    /\ brightness_menu_active = FALSE
    /\ selected_brightness = 0
    /\ sound_menu_active = FALSE
    /\ emissivity_changed = FALSE
    /\ pending_emissivity = F32Zero
    /\ restart_countdown = 0
    /\ emissivity_bar = FALSE
    /\ brightness_dialog = FALSE
    /\ sound_dialogs = <<>>
    /\ msgboxes = <<>>
    /\ restart_msgbox = FALSE
    /\ backdrop = FALSE
    /\ restart_timers = 0
    /\ migrations = 0
    /\ ticks = 0
    /\ entered_emissivity = F32Zero
    /\ InitRest

NextCodec ==
    \/ SaveSettingsCall
    \/ PowerOff
    \/ Boot

SpecCodec == InitCodec /\ [][NextCodec]_vars

(***************************************************************************)
(* Properties of the settings codec, checked under SpecCodec               *)
(***************************************************************************)
HundredthEmissivities == {F32Hundredths(n) : n \in CodecHundredths}

\* a codec run of build v has saved a record and loaded it back
RoundTripDone(v) == variant = v /\ Len(round_trip) = 2

\* C1 as stated: in the full build every valid record, whatever its
\* emissivity in [0.65, 1.00], is read back exactly as it was saved.
C1_RoundTripEveryEmissivity ==
    RoundTripDone("full") => round_trip[2] = round_trip[1]

\* C1: in the full build a valid record whose emissivity is a whole number
\* of hundredths in [0.65, 1.00] is read back by setup() exactly as
\* saveSettings wrote it, in every field.
C1_RoundTripHundredths ==
    /\ RoundTripDone("full")
    /\ round_trip[1].current_emissivity \in HundredthEmissivities
    => round_trip[2] = round_trip[1]

\* a record with Fahrenheit, gauge hidden, sound off, volume 64 and
\* emissivity 0.73 has been saved and loaded back by the full build
C1_Witness ==
    /\ RoundTripDone("full")
    /\ pc = "run"
    /\ round_trip[1] = [temp_in_celsius |-> FALSE,
                        current_brightness |-> 1,
                        showGauge |-> FALSE,
                        sound_enabled |-> FALSE,
                        volume_level |-> 64,
                        current_emissivity |-> F32Hundredths(73)]
    /\ Record = round_trip[1]

\* C2: in the simple build a valid record (volume 25, 50, 75 or 100,
\* brightness 0..4, emissivity a whole number of hundredths) is read back
\* exactly as it was saved, with the same volume_level and sound_enabled.
C2_RoundTripSimple ==
    /\ RoundTripDone("simple")
    /\ round_trip[1].current_emissivity \in HundredthEmissivities
    => /\ round_trip[2] = round_trip[1]
       /\ round_trip[2].volume_level = round_trip[1].volume_level
       /\ round_trip[2].sound_enabled = round_trip[1].sound_enabled

\* C3: when the stored sentinel is not 0x55, setup() leaves the record at
\* its defaults whatever the other six bytes hold, writes nothing, and the
\* firmware goes on to its loop.
C3_InvalidSentinelKeepsDefaults ==
    [][Boot /\ eeprom[SETTINGS_VALID_ADDR] # SETTINGS_VALID_VALUE
       => /\ pc' = "run"
          /\ temp_in_celsius' /\ showGauge' /\ sound_enabled'
          /\ current_brightness' = BRIGHTNESS_LEVELS(variant) - 1
          /\ volume_level' = 100
          /\ current_emissivity' = F32Hundredths(95)
          /\ eeprom' = eeprom]_vars

\* the firmware runs on defaults over a store whose sentinel is 0x54 and
\* whose other bytes would decode to Fahrenheit, brightness 0, sound off
C3_Witness ==
    /\ pc = "run"
    /\ eeprom = Store(84, 0, 0, 0, 64, 0, 2)
    /\ Record = DefaultRecord(variant)
    /\ volume_level = 100

\* the sound bytes the simple build writes
LegacySoundBytes ==
    {SoundByteSimple([sound_enabled |-> on, volume_level |-> vol]) :
        on \in BOOLEAN, vol \in CodecVolumes("simple")}

\* C6: the full build loads every sound byte the simple build writes as
\* enabled = bit 7 and volume = 25 + 25 * (low two bits), and rewrites the
\* byte once in the new format.
C6_LegacyByteMigrated ==
    [][/\ Boot
       /\ variant = "full"
       /\ eeprom[SETTINGS_VALID_ADDR] = SETTINGS_VALID_VALUE
       /\ eeprom[SOUND_SETTINGS_ADDR] \in LegacySoundBytes
       => /\ sound_enabled' = (eeprom[SOUND_SETTINGS_ADDR] >= 128)
          /\ volume_level' = 25 + 25 * (eeprom[SOUND_SETTINGS_ADDR] % 4)
          /\ migrations' = migrations + 1
          /\ eeprom'[SOUND_SETTINGS_ADDR] =
                (IF sound_enabled' THEN 128 ELSE 0) + volume_level']_vars

(***************************************************************************)
(* Properties of the running firmware, checked under SpecFocus; C9 under   *)
(* SpecEmissivity and C10 under SpecCycle                                  *)
(***************************************************************************)
\* "No, cancel" pressed on the restart dialog restart_msgbox points to
CancelStep == RestartNoEvent

\* C4: in the simple build, once the value was changed on the emissivity
\* bar and the restart dialog that followed is cancelled,
\* current_emissivity is again the value it had when the bar was opened.
C4_CancelRestoresEntryValue ==
    [][/\ variant = "simple"
       /\ CancelStep
       /\ current_emissivity # entered_emissivity
       => current_emissivity' = entered_emissivity]_vars

\* C5: after Confirm restart_countdown runs 5, 4, 3, 2, 1, 0, one less
\* with each run of the timer callback since the Confirm, and the firmware
\* restarts on the fifth run and on no other.
C5_RestartOnFifthTick ==
    /\ pc = "run" /\ restart_countdown > 0 => restart_countdown + ticks = 5
    /\ pc = "restart" => ticks = 5 /\ restart_countdown = 0

\* C7: in the full build the migration of a legacy sound byte happens at
\* most once: after it the store never holds a byte that loadSettings
\* would take for the old format again.
C7_MigratesOnce ==
    variant = "full" =>
        /\ migrations <= 1
        /\ migrations = 1 => ~Migrates(variant, eeprom)

\* after the migration the sound dialog saved sound off at volume 25, and
\* a later setup() loaded that byte
C7_Witness ==
    /\ variant = "full"
    /\ migrations = 1
    /\ pc = "run"
    /\ eeprom[SOUND_SETTINGS_ADDR] = 25
    /\ ~sound_enabled /\ volume_level = 25
    /\ sound_dialogs = <<>> /\ ~menu_active

\* C8: in the full build volume_level is within [25, 100] in every
\* reachable state.
C8_VolumeInRange ==
    variant = "full" => volume_level >= 25 /\ volume_level <= 100

\* C9: current_emissivity is within [0.65, 1.00] in every reachable state,
\* whatever emissivity the store held, wherever the bar was touched and
\* whichever answers the restart dialog got.
C9_EmissivityInRange ==
    /\ F32Le(EMISSIVITY_MIN, current_emissivity)
    /\ F32Le(current_emissivity, EMISSIVITY_MAX)

\* the simple build loaded a stored 0.64 as 0.65, the bar was touched right
\* of its end, which wrote 1.00 to the sensor, and "No, cancel" has put the
\* 0.65 back
C9_Witness ==
    /\ variant = "simple"
    /\ pc = "run"
    /\ eeprom[EMISSIVITY_ADDR] = 64 /\ eeprom[EMISSIVITY_ADDR + 1] = 0
    /\ emissivity_register = <<EmissivityData(EMISSIVITY_MAX)>>
    /\ backdrop /\ msgboxes = <<>>
    /\ ~emissivity_changed
    /\ pending_emissivity = EMISSIVITY_MIN
    /\ current_emissivity = EMISSIVITY_MIN

\* an iteration of loop() that detects a press of Button2
Button2Event ==
    PollButton2 /\ PressDetected(pin_level["BUTTON2_PIN"], lastButton2State)

\* an iteration of loop() that detects a press of Button1
Button1Event ==
    PollButton1 /\ PressDetected(pin_level["BUTTON1_PIN"], lastButton1State)

\* C10: in the menu Next selects (i + 1) mod 6 and Prev (i - 1) mod 6; in
\* the brightness dialog of the full build Next gives (b + 1) mod 4 and
\* Prev (b - 1) mod 4; the indices stay in range.
C10_IndexCyclingWraps ==
    [][/\ Button2Event /\ InMenu
            => selected_menu_item' = (selected_menu_item + 1) % 6
       /\ Button1Event /\ InMenu
            => selected_menu_item' = (selected_menu_item + 5) % 6
       /\ Button2Event /\ InBrightness
            => /\ selected_brightness' = (selected_brightness + 1) % 4
               /\ current_brightness' = selected_brightness'
       /\ Button1Event /\ InBrightness
            => /\ selected_brightness' = (selected_brightness + 3) % 4
               /\ current_brightness' = selected_brightness'
       /\ selected_menu_item' \in 0..5
       /\ selected_brightness' \in 0..3]_vars

\* the full build since setup(): Prev was pressed on item 0 of the menu and
\* Next on item 5, then in the brightness dialog Prev on index 0 and Next on
\* index 3, which has just given index 0
C10_Witness ==
    /\ variant = "full"
    /\ pc = "run"
    /\ wraps = {"MenuPrev", "MenuNext", "BrightnessPrev", "BrightnessNext"}
    /\ InBrightness
    /\ selected_menu_item = 1
    /\ selected_brightness = 0 /\ current_brightness = 0
    /\ lastButton2State = "LOW" /\ held_events["BUTTON2_PIN"] = 1

(***************************************************************************)
(* Properties of loading and committing, checked under SpecCodec           *)
(***************************************************************************)
\* C13: whatever the seven stored bytes are, if the sentinel is 0x55 the
\* record after loadSettings has a brightness index below BRIGHTNESS_LEVELS,
\* a volume within [25, 100] and an emissivity within [0.65, 1.00].
C13_LoadedRecordInRange ==
    [][Boot /\ eeprom[SETTINGS_VALID_ADDR] = SETTINGS_VALID_VALUE
       => /\ current_brightness' \in 0..(BRIGHTNESS_LEVELS(variant) - 1)
          /\ volume_level' \in 25..100
          /\ F32Le(EMISSIVITY_MIN, current_emissivity')
          /\ F32Le(current_emissivity', EMISSIVITY_MAX)]_vars

\* setup() has loaded a store whose brightness byte is 255 and whose
\* emissivity bytes are 0xFFFF
C13_Witness ==
    /\ Running
    /\ round_trip = <<>>
    /\ eeprom[SETTINGS_VALID_ADDR] = SETTINGS_VALID_VALUE
    /\ eeprom[BRIGHTNESS_ADDR] = 255
    /\ eeprom[EMISSIVITY_ADDR] = 255 /\ eeprom[EMISSIVITY_ADDR + 1] = 255
    /\ current_brightness = BRIGHTNESS_LEVELS(variant) - 1
    /\ current_emissivity = EMISSIVITY_MAX

\* C14: every commit to the store has written the whole record, all seven
\* bytes; none has written a single field on its own.
C14_CommitsWholeRecord ==
    committed \in {{}, Addrs}

(***************************************************************************)
(* Properties of the sound feedback, checked under SpecQuiet               *)
(***************************************************************************)
\* C15: while sound_enabled is false no event drives the speaker: a step
\* that starts and ends with the sound off (navigation, selection, confirm,
\* cancel, volume change, countdown tick) ends with no tone emitted.
C15_SilentWhenDisabled ==
    [][~sound_enabled /\ ~sound_enabled' => ~tone']_vars

\* the countdown is running with the sound off: Confirm and at least one
\* tick have happened in silence, at a volume chosen in the sound dialog
C15_Witness ==
    /\ variant = "simple"
    /\ Running
    /\ ~sound_enabled
    /\ volume_level = 100
    /\ restart_countdown \in 1..(RESTART_SECONDS - 1)
    /\ ~tone

(***************************************************************************)
(* Properties of the polled input lines, checked under SpecInput           *)
(***************************************************************************)
LastState(p) == IF p = "BUTTON2_PIN" THEN lastButton2State
                ELSE IF p = "BUTTON1_PIN" THEN lastButton1State
                ELSE lastKeyState

\* C11: for each of the three lines, a line sampled LOW has produced exactly
\* one press event since it was last sampled HIGH, however often it was
\* polled since; a line sampled HIGH has produced none.
C11_OneEventPerPress ==
    \A p \in Pins :
        Running => held_events[p] = (IF LastState(p) = "LOW" THEN 1 ELSE 0)

\* the Key is held low and was polled again after its press had been
\* handled (the gauge toggled once) while Button2 was pushed but not polled
C11_Witness ==
    /\ variant = "simple"
    /\ Running
    /\ pin_level["KEY_PIN"] = "LOW" /\ lastKeyState = "LOW"
    /\ held_events["KEY_PIN"] = 1
    /\ ~showGauge
    /\ pin_level["BUTTON2_PIN"] = "LOW" /\ lastButton2State = "HIGH"

(***************************************************************************)
(* Properties of the temperature update, checked under SpecSensor          *)
(***************************************************************************)
\* C12: an update whose bus transaction fails gets the sentinel -999 from
\* readObjectTemperature and leaves the temperature text, the gauge value,
\* the status label and the LED as they were; the loop keeps running.
C12_FailedReadLeavesDisplay ==
    [][TempUpdate /\ objectTemp' = SensorFailed
       => /\ UNCHANGED <<temp_value_text, meter_value, status_text, led>>
          /\ pc' = "run"]_vars

\* the sensor failed after a reading of 343.01 C had been shown
C12_Witness ==
    /\ Running
    /\ objectTemp = SensorFailed
    /\ temp_value_text = [shown |-> TRUE, degrees |-> 343, unit |-> "C"]
    /\ meter_value = 343
    /\ status_text = "TOO HOT!" /\ led = "Red"

\* the screen shows, in Celsius, the reading of the scenario
ScenarioShown ==
    /\ Running
    /\ temp_value_text.shown /\ temp_value_text.unit = "C"
    /\ objectTemp = ReadObjectTemperature(ScenarioReading)

\* C17 as stated: the raw reading 0x3A10 converts to about 9.17 degrees
\* Celsius, the status is "TOO COLD" and the LED blue.
C17_ScenarioNine ==
    ScenarioShown
        => /\ objectTemp \in 9165..9175
           /\ status_text = "TOO COLD" /\ led = "Blue"

\* C17: the raw reading 0x3A10 converts to 24.13 degrees Celsius, below the
\* Celsius too-cold threshold: the status is "TOO COLD" and the LED blue.
C17_ScenarioTooCold ==
    ScenarioShown
        => /\ objectTemp = 24130
           /\ objectTemp < TEMP_TOO_COLD_C * 1000
           /\ temp_value_text.degrees = 24
           /\ status_text = "TOO COLD" /\ led = "Blue"

C17_Witness ==
    /\ ScenarioShown
    /\ temp_in_celsius
    /\ status_text = "TOO COLD" /\ led = "Blue"

(***************************************************************************)
(* Properties of the buttons on the main screen and on the emissivity bar, *)
(* checked under SpecInput                                                 *)
(***************************************************************************)
\* an iteration of loop() that detects a press of the Key unit
KeyEvent == PollKey /\ PressDetected(pin_level["KEY_PIN"], lastKeyState)

\* no menu, no dialog and no emissivity bar is open
MainScreen == /\ ~menu_active
              /\ ~bar_active
              /\ ~sound_menu_active
              /\ ~brightness_menu_active

\* the store holds the record of the RAM after the step, written whole
Persisted == /\ eeprom' = SaveSettings(variant, Record', eeprom)
             /\ committed' = Addrs

\* C16: on the main screen, in both builds, a press of the Key unit toggles
\* the gauge visibility and saves it, and a press of Button1 toggles the
\* temperature unit and saves it.
C16_MainScreenToggles ==
    [][/\ KeyEvent /\ MainScreen =>
            showGauge' = ~showGauge /\ Persisted
       /\ Button1Event /\ MainScreen =>
            temp_in_celsius' = ~temp_in_celsius /\ Persisted]_vars

\* C18: in the full build, a press of the Key unit while the emissivity bar
\* is open ends the sub-mode: bar_active is false afterwards.
C18_KeyEndsEmissivityBar ==
    [][KeyEvent /\ variant = "full" /\ bar_active => ~bar_active']_vars

(***************************************************************************)
(* Properties of the Exit item and of the restart dialog, checked under    *)
(* SpecFocus                                                               *)
(***************************************************************************)
\* the Key unit selects Exit in the menu of the simple build
ExitStep == /\ PressKey
            /\ variant = "simple"
            /\ ~bar_active
            /\ menu_active
            /\ selected_menu_item = 5

\* C19: in the simple build, selecting Exit opens the restart dialog exactly
\* when the emissivity was changed since the menu was most recently opened,
\* and otherwise closes the menu.
C19_ExitAsksOnlyAfterChange ==
    [][ExitStep =>
          IF changed_since_entry
          THEN /\ restart_msgbox'
               /\ Len(msgboxes') = Len(msgboxes) + 1
               /\ menu_active'
          ELSE /\ ~menu_active'
               /\ UNCHANGED msgboxes]_vars

\* C20: after "No, cancel" on the restart dialog the menu is closed and no
\* emissivity bar, brightness dialog or sound dialog is active.
C20_CancelReturnsToMain ==
    [][CancelStep =>
          /\ ~menu_active'
          /\ ~bar_active'
          /\ ~brightness_menu_active'
          /\ ~sound_menu_active']_vars

(***************************************************************************)
(* The restart countdown of the simple build with a timer that keeps       *)
(* firing                                                                  *)
(***************************************************************************)
\* the simple build started from erased flash and never switched off
InitCountdown ==
    /\ Init
    /\ variant = "simple"
    /\ eeprom = BlankStore

\* what the user leaves alone in these runs: the gauge (the gauge item of
\* the menu and KEY on the main screen), the brightness item and the sound
\* dialog; and the user presses KEY for another restart message box only
\* while fewer than MaxMsgboxes are open, so that "Yes, restart" sets the
\* countdown back to its start at most MaxMsgboxes - 1 times
Calm ==
    /\ UNCHANGED <<showGauge, current_brightness>>
    /\ sound_dialogs' = <<>>
    /\ Len(msgboxes') <= MaxMsgboxes

NextCountdown ==
    \/ Boot
    \/ (PressButton1 /\ Calm)
    \/ (PressButton2 /\ Calm)
    \/ (PressKey /\ Calm)
    \/ (EmissivitySliderEvent /\ OnePoint)
    \/ RestartYesEvent
    \/ RestartNoEvent
    \/ RestartTimerTick

\* lv_timer_handler() runs in every iteration of loop(), so a timer that
\* exists is called again and again
SpecCountdown ==
    InitCountdown /\ [][NextCountdown]_vars /\ WF_vars(RestartTimerTick)

\* the countdown runs: "Yes, restart" set restart_countdown and made a timer
CountingDown == Running /\ restart_countdown > 0 /\ restart_timers > 0

\* C21: once the restart is confirmed, whatever buttons, slider events and
\* dialog buttons follow, the chip restarts.
C21_CountdownEndsInRestart == CountingDown ~> (pc = "restart")

\* ESP.restart() was called after more timer callbacks than one countdown
\* has: a second "Yes, restart" had set the counter back to 5 on the way
C21_Witness ==
    /\ pc = "restart"
    /\ ticks > RESTART_SECONDS

(***************************************************************************)
(* The dialogs of the full build, checked under SpecFocus                  *)
(***************************************************************************)
\* the Key unit pressed while the brightness dialog or the sound dialog of
\* the full build is open
KeyInBrightness == PressKey /\ variant = "full" /\ brightness_menu_active
KeyInSound == PressKey /\ variant = "full" /\ sound_menu_active

\* C22: in the full build a press of the Key unit in the brightness dialog
\* or in the sound dialog writes the whole record that is in RAM to the
\* store and returns to the main screen: menu_active,
\* brightness_menu_active and sound_menu_active are all false afterwards.
C22_KeyClosesDialog ==
    [][KeyInBrightness \/ KeyInSound =>
          /\ UNCHANGED recordVars
          /\ Persisted
          /\ ~menu_active'
          /\ ~brightness_menu_active'
          /\ ~sound_menu_active']_vars

\* a brightness and a volume chosen in the dialogs are in the store and the
\* main screen is back
C22_Witness ==
    /\ variant = "full"
    /\ Running
    /\ MainScreen
    /\ ~brightness_dialog /\ sound_dialogs = <<>>
    /\ current_brightness = 0
    /\ volume_level = VOLUME_SLIDER_MIN + VOLUME_STEP
    /\ eeprom = SaveSettings(variant, Record, eeprom)
    /\ committed = Addrs

(***************************************************************************)
(* The toggling items of the menu, checked under SpecInput                 *)
(***************************************************************************)
\* the menu is shown and neither a bar nor a dialog is open
TopMenu == /\ menu_active
           /\ ~bar_active
           /\ ~sound_menu_active
           /\ ~brightness_menu_active
           /\ ~brightness_dialog
           /\ sound_dialogs = <<>>
           /\ msgboxes = <<>>

\* loop() detects a press of the Key unit while item i of the menu is
\* selected
SelectStep(i) == KeyEvent /\ TopMenu /\ selected_menu_item = i

\* C23: selecting Temperature Unit or Gauge Visibility in the menu flips
\* that field of the record and no other, writes the record to the store
\* and returns to the main screen, all in the step of the selection.
C23_ToggleItems ==
    [][/\ SelectStep(0) =>
            /\ Record' = [Record EXCEPT !.temp_in_celsius = ~temp_in_celsius]
            /\ Persisted
            /\ MainScreen'
       /\ SelectStep(4) =>
            /\ Record' = [Record EXCEPT !.showGauge = ~showGauge]
            /\ Persisted
            /\ MainScreen']_vars

\* both flags were flipped from the menu: Fahrenheit and a hidden gauge are
\* in RAM and in the store, and the main screen is back
C23_Witness ==
    /\ Running
    /\ MainScreen
    /\ ~temp_in_celsius /\ ~showGauge
    /\ eeprom[TEMP_UNIT_ADDR] = 0 /\ eeprom[GAUGE_VISIBLE_ADDR] = 0
    /\ selected_menu_item = 4
    /\ committed = Addrs

(***************************************************************************)
(* The sound byte of the full build, checked under SpecCodec               *)
(***************************************************************************)
\* the sound bytes saveSettings of the full build writes for the records
\* whose volume is within [25, 100]
NewFormatBytes ==
    {SoundByteFull([DefaultRecord("full") EXCEPT !.sound_enabled = en,
                                                  !.volume_level = vol]) :
        en \in BOOLEAN, vol \in CodecVolumes("full")}

\* C24 as stated: some sound byte that saveSettings writes in the new
\* format for a volume within [25, 100] is taken for the old format by
\* loadSettings when it is found in a valid store.
C24_NewByteTakenForLegacy ==
    \E sb \in NewFormatBytes :
        Migrates("full", [eeprom EXCEPT
                            ![SETTINGS_VALID_ADDR] = SETTINGS_VALID_VALUE,
                            ![SOUND_SETTINGS_ADDR] = sb])

\* C24: no sound byte that saveSettings of the full build writes for a
\* volume within [25, 100] is taken for the old format by loadSettings:
\* after such a save the stored byte fails the legacy test, and a later
\* setup() loads the saved volume and converts nothing.
C24_NewByteNeverLegacy ==
    /\ variant = "full"
    /\ round_trip # <<>>
    /\ round_trip[1].volume_level \in CodecVolumes("full")
    => /\ eeprom[SOUND_SETTINGS_ADDR] \in NewFormatBytes
       /\ ~IsLegacySoundByte(eeprom[SOUND_SETTINGS_ADDR])
       /\ LoadedVolume(variant, eeprom[SOUND_SETTINGS_ADDR])
              = round_trip[1].volume_level
       /\ committed = Addrs

\* the smallest valid volume was saved with the sound off, and setup() has
\* run over that store since
C24_Witness ==
    /\ variant = "full"
    /\ round_trip # <<>>
    /\ round_trip[1].volume_level = 25
    /\ ~round_trip[1].sound_enabled
    /\ eeprom[SOUND_SETTINGS_ADDR] = 25
    /\ pc = "run"
    /\ Len(round_trip) > 1
    /\ volume_level = 25
    /\ migrations = 0

\* the sub-modes of the full build that are active
ActiveSubModes ==
    {m \in {"brightness", "sound", "bar"} :
        \/ m = "brightness" /\ brightness_menu_active
        \/ m = "sound" /\ sound_menu_active
        \/ m = "bar" /\ bar_active}

\* C25: in the full build at most one of brightness_menu_active,
\* sound_menu_active and bar_active is true in every reachable state, and
\* menu_active is true whenever one of them is.
C25_OneSubModeInsideMenu ==
    variant = "full" =>
        /\ Cardinality(ActiveSubModes) <= 1
        /\ ActiveSubModes # {} => menu_active

\* the emissivity bar is up after the brightness dialog and the sound dialog
\* were opened and closed: a brightness and a volume they set are in RAM
C25_Witness ==
    /\ variant = "full"
    /\ Running
    /\ ActiveSubModes = {"bar"}
    /\ menu_active
    /\ emissivity_changed
    /\ current_brightness = 0
    /\ volume_level = VOLUME_SLIDER_MIN + VOLUME_STEP

\* the main screen with no restart dialog over it
MainIdle == Running /\ MainScreen /\ msgboxes = <<>>

\* C26: whenever the firmware is on the main screen, with no menu, dialog,
\* emissivity bar or restart dialog active, and the stored sentinel is
\* valid, loadSettings would read from the store exactly the record that is
\* in RAM.
C26_MainScreenIsSaved ==
    MainIdle /\ eeprom[SETTINGS_VALID_ADDR] = SETTINGS_VALID_VALUE
    => LoadSettings(variant, Record, eeprom) = Record

\* C27: in the simple build a cancelled emissivity change is never in the
\* store: after "No, cancel" a valid store still holds the emissivity from
\* before the change, whatever was done in the menu while the dialog was
\* open.  The value from before the change is the one current_emissivity
\* had when the bar was opened; the step looked at is a Cancel that puts
\* this value back.
C27_CancelledChangeNotStored ==
    [][/\ CancelStep
       /\ variant = "simple"
       /\ pending_emissivity = entered_emissivity
       /\ eeprom[SETTINGS_VALID_ADDR] = SETTINGS_VALID_VALUE
       => LoadedEmissivity(eeprom') = entered_emissivity]_vars

(***************************************************************************)
(* The emissivity register of the sensor, checked under SpecFocus          *)
(***************************************************************************)
\* setup() has found a valid sentinel and run loadSettings over the store
BootStep == Boot /\ eeprom[SETTINGS_VALID_ADDR] = SETTINGS_VALID_VALUE

\* C28: when no emissivity change is pending after setup() over valid
\* stored settings, or after "No, cancel" on the restart dialog, the data
\* last written to the emissivity register of the sensor is that of
\* current_emissivity.  Looked at once the firmware has written the
\* register at all.
C28_RegisterFollowsEmissivity ==
    [][/\ BootStep \/ CancelStep
       /\ emissivity_register # <<>>
       /\ ~emissivity_changed'
       => emissivity_register' = <<EmissivityData(current_emissivity')>>]_vars

\* C29: in the simple build at most one restart dialog is open at a time
\* and at most one countdown timer is created between two runs of setup().
C29_OneDialogOneTimer ==
    variant = "simple" =>
        /\ Len(msgboxes) <= 1
        /\ restart_timers <= 1

(***************************************************************************)
(* The status in the two units, checked under SpecSensor                   *)
(***************************************************************************)
\* the status text and LED colour the update shows for reading t, in
\* thousandths of a degree Celsius, when the unit is Celsius or not
StatusIn(t, celsius) ==
    Status(IF celsius THEN t ELSE Fahrenheit(t), celsius)

\* C30: for every reading of the sensor the status text and the LED colour
\* the update shows are those it would show for the same reading in the
\* other unit.
C30_StatusSameInBothUnits ==
    [][TempUpdate =>
          \A bus \in BusResults :
              LET t == ReadObjectTemperature(bus)
              IN  /\ AboveAbsoluteZero(t)
                  /\ objectTemp' = (IF temp_in_celsius THEN t
                                                       ELSE Fahrenheit(t))
                  => <<status_text', led'>> = StatusIn(t, ~temp_in_celsius)]_vars


====
